---- MODULE Spec2Model ----
(***************************************************************************)
(* Recruitment pipeline of ai_mock_interviews: the Calendly webhook        *)
(* receiver, the interview runner with its voice-session callbacks, and    *)
(* the resume batch endpoint, over the Run/Candidate/Interview ledger.     *)
(***************************************************************************)
EXTENDS Integers, Sequences, FiniteSets, TLC

VARIABLES
    adminReady,      \* isAdminReady(): the document store is configured
    webhookSecret,   \* process.env.CALENDLY_WEBHOOK_SECRET ("" when unset)
    internalApiKey,  \* process.env.INTERNAL_API_KEY ("" when unset)
    vapiToken,       \* NEXT_PUBLIC_VAPI_WEB_TOKEN set: real client, else NoopVapi
    smtpConfigured,  \* SMTP_HOST, SMTP_USER and SMTP_PASS all set
    runs,            \* collection recruit_runs
    candidates,      \* collection recruit_candidates
    interviews,      \* collection recruit_interviews
    stats,           \* document recruitment_stats/current
    reqs,            \* interview-run requests that reached the voice session
    listeners,       \* callbacks registered on the vapi singleton
    lastRun,         \* the last interview-run request answered before a session
    wh,              \* the last webhook delivery and its answer
    runnerCalls,     \* interview ids the webhook handler called the runner for
    batch,           \* the resume batch request being handled
    emails,          \* shortlist emails handed to the SMTP transport
    modelCalls,      \* number of generative-model calls made by batch requests
    feedbacks,       \* collection feedback
    view,            \* the last answer of the dashboard and statistics endpoints
    agent,           \* the Agent component of a practice interview
    practice,        \* collection interviews (practice) and the last query on it
    session          \* the users, the session cookie of a request and its user

vars == <<adminReady, webhookSecret, internalApiKey, vapiToken, smtpConfigured,
          runs, candidates, interviews, stats, reqs, listeners, lastRun, wh,
          runnerCalls, batch, emails, modelCalls, feedbacks, view, agent,
          practice, session>>

\* what the requests of the recruitment pipeline leave alone
site == <<practice, session>>
ui == <<view, agent, site>>

config == <<adminReady, webhookSecret, internalApiKey, vapiToken, smtpConfigured>>

(***************************************************************************)
(* Bounds of the model.                                                    *)
(***************************************************************************)
MaxWebhooks == 2   \* webhook deliveries that create an Interview
MaxReqs == 2       \* interview-run requests that reach the voice session
MaxMsgs == 1       \* messages one voice session emits
MaxLen == 2        \* files of an ordinary batch request
MaxReads == 2      \* statistics computations in one behaviour
MaxDocs == 3       \* stored practice interviews
MaxCalls == 2      \* invocations of handleCall of one Agent component

(***************************************************************************)
(* Program constants.                                                      *)
(***************************************************************************)
LookAheadHours == 72
MaxFiles == 10
ShortlistThreshold == 85
DisplayThreshold == 70
DigestBytes == 2   \* bytes of the modelled digest (SHA-256 has 32)

Range(s) == {s[i] : i \in 1..Len(s)}

DocId(n) == <<"doc", n>>
DemoId(n) == <<"demo", n>>
NoId == <<"none", 0>>

(***************************************************************************)
(* Hex strings are sequences of one-character strings.                     *)
(***************************************************************************)
HexChars == <<"0","1","2","3","4","5","6","7","8","9","a","b","c","d","e","f">>
UpperHexChars == <<"0","1","2","3","4","5","6","7","8","9","A","B","C","D","E","F">>

IsHexChar(c) == c \in Range(HexChars) \cup Range(UpperHexChars)

HexVal(c) ==
    IF c \in Range(HexChars)
    THEN (CHOOSE i \in 1..16 : HexChars[i] = c) - 1
    ELSE (CHOOSE i \in 1..16 : UpperHexChars[i] = c) - 1

\* digest("hex"): two lower-case hex characters per byte
RECURSIVE HexEncode(_)
HexEncode(bytes) ==
    IF bytes = <<>> THEN <<>>
    ELSE <<HexChars[(Head(bytes) \div 16) + 1], HexChars[(Head(bytes) % 16) + 1]>>
         \o HexEncode(Tail(bytes))

\* Buffer.from(s, "hex"): decodes pairs of hex characters of either case and
\* stops at the first pair that is not hexadecimal (or at a trailing odd one)
RECURSIVE HexDecode(_)
HexDecode(s) ==
    IF Len(s) < 2 \/ ~IsHexChar(s[1]) \/ ~IsHexChar(s[2]) THEN <<>>
    ELSE <<HexVal(s[1]) * 16 + HexVal(s[2])>> \o HexDecode(SubSeq(s, 3, Len(s)))

ToUpper(s) ==
    [i \in 1..Len(s) |->
        IF s[i] \in Range(HexChars)
        THEN UpperHexChars[CHOOSE k \in 1..16 : HexChars[k] = s[i]]
        ELSE s[i]]

(***************************************************************************)
(* Webhook bodies.  scheduledAt is invitee.scheduled_event.start_time: a   *)
(* missing value, an unparsable string, or a time given in hours from now. *)
(***************************************************************************)
NoTime == [kind |-> "missing", hours |-> 0]
BadTime == [kind |-> "invalid", hours |-> 0]
At(h) == [kind |-> "time", hours |-> h]

KnownEmail == "e1@x"
OtherEmail == "e2@x"
UnknownEmail == "nobody@x"

Body(json, event, payload, email, at) ==
    [json |-> json, event |-> event, payload |-> payload, email |-> email,
     scheduledAt |-> at]

BodyList ==
    << Body(FALSE, "", FALSE, "", NoTime),
       Body(TRUE, "invitee.canceled", TRUE, KnownEmail, At(LookAheadHours)),
       Body(TRUE, "invitee.created", FALSE, "", NoTime),
       Body(TRUE, "invitee.created", TRUE, "", At(LookAheadHours)),
       Body(TRUE, "invitee.created", TRUE, KnownEmail, NoTime),
       Body(TRUE, "invitee.created", TRUE, KnownEmail, BadTime),
       Body(TRUE, "invitee.created", TRUE, KnownEmail, At(LookAheadHours)),
       Body(TRUE, "invitee.created", TRUE, KnownEmail, At(LookAheadHours + 1)),
       Body(TRUE, "invitee.created", TRUE, KnownEmail, At(-1)),
       Body(TRUE, "invitee.created", TRUE, UnknownEmail, At(LookAheadHours)) >>

Bodies == Range(BodyList)

BodyNo(b) == CHOOSE i \in 1..Len(BodyList) : BodyList[i] = b

\* crypto.createHmac("sha256", secret).update(payload).digest(): a keyed digest,
\* modelled as an injective table over the bodies of the model
HmacDigest(secret, payload) ==
    [i \in 1..DigestBytes |->
        IF i = 1 THEN (BodyNo(payload) * 16 + (IF secret = "" THEN 0 ELSE 5)) % 256
        ELSE (255 - BodyNo(payload) * i) % 256]

\* timingSafeEqual(a, b): throws a RangeError when the byte lengths differ
TimingSafeEqual(a, b) ==
    IF Len(a) # Len(b) THEN "throws" ELSE IF a = b THEN "true" ELSE "false"

verifyWebhookSignature(payload, signature, secret) ==
    TimingSafeEqual(HexDecode(signature),
                    HexDecode(HexEncode(HmacDigest(secret, payload))))

\* request.headers.get("calendly-webhook-signature"): null or a string
NoHeader == [present |-> FALSE, value |-> <<>>]
Header(s) == [present |-> TRUE, value |-> s]
Truthy(h) == h.present /\ h.value # <<>>

ExpectedSignature(b) == HexEncode(HmacDigest(webhookSecret, b))

Signatures(b) ==
    { NoHeader,
      Header(<<>>),
      Header(ExpectedSignature(b)),
      Header(ToUpper(ExpectedSignature(b))),
      Header(ExpectedSignature(b) \o <<"z", "z">>),
      Header(ExpectedSignature(BodyList[1 + (BodyNo(b) % Len(BodyList))])),
      Header(<<"a", "b">>) }

(***************************************************************************)
(* The ledger.                                                             *)
(***************************************************************************)
NoStats == [exists |-> FALSE, totalCandidates |-> 0, shortlistedCandidates |-> 0,
            interviewsCompleted |-> 0, interviewsScheduled |-> 0, totalRuns |-> 0,
            averageMatchScore |-> 0]

\* updateRecruitmentStatistics: creates the zeroed document when it is missing,
\* otherwise touches lastUpdated only (timestamps are not modelled)
updateRecruitmentStatistics(s) ==
    IF s.exists THEN s ELSE [NoStats EXCEPT !.exists = TRUE]

Analysis(m, sk, ex, ro, ed, rec, email) ==
    [matchScore |-> m, skillsMatch |-> sk, experienceMatch |-> ex,
     roleAlignment |-> ro, educationMatch |-> ed, recommended |-> rec,
     email |-> email]

Candidate(id, runId, ai) ==
    [id |-> id, runId |-> runId, ai |-> ai, email |-> ai.email]

\* the entry pushed to shortlistedCandidates
ShortlistEntry(id, ai) ==
    [id |-> id, email |-> IF ai.email = "" THEN "no-email@example.com" ELSE ai.email,
     matchScore |-> ai.matchScore]

Run(id, total, shortlisted, status) ==
    [id |-> id, total |-> total, shortlisted |-> shortlisted, runStatus |-> status]

InterviewOfNoRun(id, c, email, at) ==
    [id |-> id, candidateId |-> c.id, candidateEmail |-> email, runId |-> NoId,
     scheduledAt |-> at, status |-> "scheduled", transcript |-> <<>>,
     report |-> FALSE]

\* interviewData of the webhook
Interview(id, c, email, at) ==
    [id |-> id, candidateId |-> c.id, candidateEmail |-> email, runId |-> c.runId,
     scheduledAt |-> at, status |-> "scheduled", transcript |-> <<>>,
     report |-> FALSE]

InterviewIds == {DocId(i) : i \in 1..Len(interviews)}
InterviewNo(id) == id[2]
CandidateIds == {candidates[i].id : i \in 1..Len(candidates)}

\* db.collection("recruit_candidates").where("email", "==", e).limit(1)
CandidatesByEmail(e) == {i \in 1..Len(candidates) : candidates[i].email = e}

(***************************************************************************)
(* Interview runner: authentication.                                       *)
(***************************************************************************)
ExpectedKey == IF internalApiKey # "" THEN internalApiKey ELSE "internal-key"

NoAuth == [present |-> FALSE, value |-> ""]
Auth(s) == [present |-> TRUE, value |-> s]

AuthHeaders ==
    { NoAuth, Auth("Bearer " \o ExpectedKey), Auth("Bearer wrong"),
      Auth(ExpectedKey), Auth("bearer " \o ExpectedKey), Auth("Bearer ") }

AuthorizedByScheme(authHeader) ==
    authHeader.present /\ \E key \in {ExpectedKey, "wrong", ""} :
                             authHeader.value = "Bearer " \o key

\* authHeader !== `Bearer ${expectedKey}` answers 401
Authorized(authHeader) ==
    authHeader.present /\ authHeader.value = "Bearer " \o ExpectedKey

WithinLookAheadAlways(at) == at.kind = "time"

\* hoursUntilInterview <= 72; an unparsable start time gives NaN, and NaN <= 72
\* is false
WithinLookAhead(at) == at.kind = "time" /\ at.hours <= LookAheadHours

NoListeners == [message |-> {}, callEnd |-> {}, error |-> {}]

\* vapi.on(...) x3; NoopVapi.on does nothing
Register(l, r) ==
    IF vapiToken
    THEN [message |-> l.message \cup {r}, callEnd |-> l.callEnd \cup {r},
          error |-> l.error \cup {r}]
    ELSE l

DeregisterMessageOnly(l, rs) == [l EXCEPT !.message = @ \ rs]

\* vapi.off("message", ...); vapi.off("call-end", ...); vapi.off("error", ...)
Deregister(l, rs) ==
    [message |-> l.message \ rs, callEnd |-> l.callEnd \ rs, error |-> l.error \ rs]

NoRun == [answered |-> FALSE, auth |-> NoAuth, interviewId |-> NoId, status |-> 0]
NoWebhook == [answered |-> FALSE, body |-> BodyList[1], signature |-> NoHeader,
              status |-> 0, created |-> NoId]
\* the statistics of the fallback answer (all zero)
ZeroStats ==
    [totalCandidates |-> 0, shortlistedCandidates |-> 0, interviewsCompleted |-> 0,
     interviewsScheduled |-> 0, totalRuns |-> 0, averageMatchScore |-> 0]
NoView ==
    [endpoint |-> "none", auth |-> NoAuth, success |-> FALSE, status |-> 0,
     runs |-> <<>>, interviews |-> <<>>, reads |-> {}, n |-> 0,
     stats |-> ZeroStats, ledger |-> <<<<>>, <<>>, <<>>>>]
NoAgent == [mounted |-> FALSE]
NoQuery == [fn |-> "none", userId |-> "", limit |-> 0, missingIndex |-> FALSE]
NoPractice == [docs |-> <<>>, query |-> NoQuery, result |-> <<>>, indexed |-> <<>>]
NoCookie == [present |-> FALSE, parts |-> <<>>, valid |-> FALSE]
NoUser == [id |-> "", source |-> "none"]
NoSession == [users |-> {}, cookie |-> NoCookie, asked |-> "none", user |-> NoUser,
              page |-> "none"]
NoBatch == [pc |-> "idle", jobDescription |-> "", files |-> <<>>, idx |-> 0,
            runId |-> NoId, candidates |-> <<>>, shortlisted |-> <<>>,
            failed |-> {}, storeFailed |-> FALSE, status |-> 0]

\* no response is being written: wh and lastRun hold a request only from the
\* step that answers it to the step that sends the answer
Idle == ~wh.answered /\ ~lastRun.answered

(***************************************************************************)
(* Webhook receiver (POST /api/calendly/webhook).                          *)
(***************************************************************************)
\* the signature check of the handler: "skip" when no secret is configured or
\* the header is missing or empty
SignatureCheck(b, sig) ==
    IF webhookSecret # "" /\ Truthy(sig)
    THEN verifyWebhookSignature(b, sig.value, webhookSecret)
    ELSE "skip"

MissingEmailOnly(b) == b.email = ""

\* !candidateEmail || !scheduledAt
MissingFields(b) == b.email = "" \/ b.scheduledAt.kind = "missing"

\* the status the handler answers with; 0 stands for "goes on to create the
\* Interview"
WebhookStatus(b, sig) ==
    IF ~adminReady THEN 500
    ELSE LET check == SignatureCheck(b, sig) IN
    IF check = "throws" THEN 500
    ELSE IF check = "false" THEN 401
    ELSE IF ~b.json THEN 500
    ELSE IF b.event # "invitee.created" THEN 200
    ELSE IF ~b.payload THEN 500
    ELSE IF MissingFields(b) THEN 400
    ELSE IF CandidatesByEmail(b.email) = {} THEN 200
    ELSE 0

Answer(b, sig, status, created) ==
    [answered |-> TRUE, body |-> b, signature |-> sig, status |-> status,
     created |-> created]

\* a delivery answered without creating an Interview
WebhookReject(b, sig) ==
    /\ Idle
    /\ LET status == WebhookStatus(b, sig) IN
         /\ status # 0
         /\ wh' = Answer(b, sig, status, NoId)
    /\ UNCHANGED <<config, ui, feedbacks, runs, candidates, interviews, stats, reqs, listeners,
                   lastRun, runnerCalls, batch, emails, modelCalls>>

\* scheduleInterviewRunner: the fetch to /api/interview/run with the internal
\* bearer token, when the start time is within the look-ahead window
scheduleInterviewRunner(calls, interviewId, at) ==
    IF WithinLookAhead(at)
    THEN Append(calls, [interviewId |-> interviewId,
                        auth |-> Auth("Bearer " \o ExpectedKey),
                        delivered |-> FALSE])
    ELSE calls

\* an invitee.created delivery that finds a Candidate: the Interview is created,
\* the statistics document is touched and the runner is called; the handler
\* answers 200 whatever the outcome of the runner call (its errors are swallowed)
WebhookCreate(b, sig) ==
    /\ Idle
    /\ WebhookStatus(b, sig) = 0
    /\ Len(interviews) < MaxWebhooks
    /\ \E c \in CandidatesByEmail(b.email) :
         LET id == DocId(Len(interviews) + 1) IN
         /\ interviews' = Append(interviews,
                                 Interview(id, candidates[c], b.email, b.scheduledAt))
         /\ stats' = updateRecruitmentStatistics(stats)
         /\ runnerCalls' = scheduleInterviewRunner(runnerCalls, id, b.scheduledAt)
         /\ wh' = Answer(b, sig, 200, id)
    /\ UNCHANGED <<config, ui, feedbacks, runs, candidates, reqs, listeners, lastRun, batch,
                   emails, modelCalls>>

(***************************************************************************)
(* Interview runner (POST /api/interview/run).                             *)
(***************************************************************************)
\* the status the handler answers with before it touches the Interview; 0 stands
\* for "goes on to mark the Interview in_progress and start the voice session"
RunnerStatus(authHeader, interviewId) ==
    IF ~adminReady THEN 500
    ELSE IF ~Authorized(authHeader) THEN 401
    ELSE IF interviewId = NoId THEN 400
    ELSE IF interviewId \notin InterviewIds THEN 404
    ELSE IF interviews[InterviewNo(interviewId)].candidateId \notin CandidateIds THEN 404
    ELSE 0

NewReq(authHeader, interviewId, origin) ==
    [auth |-> authHeader, interviewId |-> interviewId, origin |-> origin, session |-> "starting",
     emitted |-> 0, pc |-> "waiting", transcript |-> <<>>, status |-> 0,
     cause |-> "", first |-> "", finals |-> <<>>, mails |-> <<>>, wrote |-> FALSE]

\* the first terminal event that reached the request: the rejected start, a
\* call-end or an error
Reached(r, event) == IF r.first = "" THEN [r EXCEPT !.first = event] ELSE r

\* resolve(NextResponse.json(...)): a promise settles once, later calls do nothing
Resolve(r, status, cause) ==
    IF r.status = 0 THEN [r EXCEPT !.status = status, !.cause = cause] ELSE r

RunHandlerRegistersFirst(authHeader, interviewId, origin) ==
    IF RunnerStatus(authHeader, interviewId) # 0
    THEN /\ lastRun' = [answered |-> TRUE, auth |-> authHeader,
                        interviewId |-> interviewId,
                        status |-> RunnerStatus(authHeader, interviewId)]
         /\ listeners' = Register(listeners, Len(reqs) + 1)
         /\ UNCHANGED <<interviews, reqs>>
    ELSE /\ interviews' = [interviews EXCEPT
                             ![InterviewNo(interviewId)].status = "in_progress"]
         /\ reqs' = Append(reqs, NewReq(authHeader, interviewId, origin))
         /\ listeners' = Register(listeners, Len(reqs) + 1)
         /\ UNCHANGED lastRun

\* the handler from the checks to the registration of the callbacks
RunHandler(authHeader, interviewId, origin) ==
    IF RunnerStatus(authHeader, interviewId) # 0
    THEN /\ lastRun' = [answered |-> TRUE, auth |-> authHeader,
                        interviewId |-> interviewId,
                        status |-> RunnerStatus(authHeader, interviewId)]
         /\ UNCHANGED <<interviews, reqs, listeners>>
    ELSE /\ interviews' = [interviews EXCEPT
                             ![InterviewNo(interviewId)].status = "in_progress"]
         /\ reqs' = Append(reqs, NewReq(authHeader, interviewId, origin))
         /\ listeners' = Register(listeners, Len(reqs) + 1)
         /\ UNCHANGED lastRun

RunIds == InterviewIds \cup {NoId, DocId(MaxWebhooks + 1)}

\* a request from outside the webhook handler
RunExternal(authHeader, interviewId) ==
    /\ Idle
    /\ RunnerStatus(authHeader, interviewId) = 0 => Len(reqs) < MaxReqs
    /\ RunHandler(authHeader, interviewId, "external")
    /\ UNCHANGED <<config, ui, feedbacks, runs, candidates, stats, wh, runnerCalls, batch, emails,
                   modelCalls>>

\* the request the webhook handler sent arrives
RunInternal(k) ==
    /\ Idle
    /\ ~runnerCalls[k].delivered
    /\ RunnerStatus(runnerCalls[k].auth, runnerCalls[k].interviewId) = 0
          => Len(reqs) < MaxReqs
    /\ runnerCalls' = [runnerCalls EXCEPT ![k].delivered = TRUE]
    /\ RunHandler(runnerCalls[k].auth, runnerCalls[k].interviewId, "webhook")
    /\ UNCHANGED <<config, ui, feedbacks, runs, candidates, stats, wh, batch, emails, modelCalls>>

\* vapi.start(...) resolves: the call is connected
StartOk(r) ==
    /\ Idle
    /\ vapiToken
    /\ reqs[r].session = "starting"
    /\ reqs' = [reqs EXCEPT ![r].session = "active"]
    /\ UNCHANGED <<config, ui, feedbacks, runs, candidates, interviews, stats, listeners, lastRun,
                   wh, runnerCalls, batch, emails, modelCalls>>

\* vapi.start(...) rejects (NoopVapi.start always does): the .catch handler
StartReject(r) ==
    /\ Idle
    /\ reqs[r].session = "starting"
    /\ listeners' = Deregister(listeners, {r})
    /\ reqs' = [reqs EXCEPT ![r] =
                  Resolve(Reached([@ EXCEPT !.session = "over"], "start"), 500, "start")]
    /\ UNCHANGED <<config, ui, feedbacks, runs, candidates, interviews, stats, lastRun, wh,
                   runnerCalls, batch, emails, modelCalls>>

\* what session s says in its n-th message
Said(s, n) == <<"said", s, n>>

Messages(s, n) ==
    { [type |-> "transcript", transcriptType |-> "final", role |-> "user",
       transcript |-> Said(s, n)],
      [type |-> "transcript", transcriptType |-> "partial", role |-> "user",
       transcript |-> Said(s, n)],
      [type |-> "speech-update", transcriptType |-> "", role |-> "assistant",
       transcript |-> Said(s, n)] }

\* what a session has delivered as final transcripts, in delivery order
Delivered(finals, message) ==
    IF message.type = "transcript" /\ message.transcriptType = "final"
    THEN Append(finals, [role |-> message.role, content |-> message.transcript])
    ELSE finals

\* onMessage
onMessage(r, message) ==
    IF message.type = "transcript" /\ message.transcriptType = "final"
    THEN [r EXCEPT !.transcript =
             Append(@, [role |-> message.role, content |-> message.transcript])]
    ELSE r

\* the session started by request s emits a message: the singleton calls every
\* registered message callback
MessageEvent(s, message) ==
    /\ Idle
    /\ reqs[s].session = "active"
    /\ reqs[s].emitted < MaxMsgs
    /\ reqs' = [r \in 1..Len(reqs) |->
                  LET q == IF r = s
                           THEN [reqs[r] EXCEPT !.emitted = @ + 1,
                                                !.finals = Delivered(@, message)]
                           ELSE reqs[r]
                  IN IF r \in listeners.message THEN onMessage(q, message) ELSE q]
    /\ UNCHANGED <<config, ui, feedbacks, runs, candidates, interviews, stats, listeners, lastRun,
                   wh, runnerCalls, batch, emails, modelCalls>>

\* the session started by request s ends: every registered call-end callback
\* runs up to its first await (the three vapi.off calls)
CallEndEvent(s) ==
    /\ Idle
    /\ reqs[s].session = "active"
    /\ listeners' = Deregister(listeners, listeners.callEnd)
    /\ reqs' = [r \in 1..Len(reqs) |->
                  LET q == IF r = s THEN [reqs[r] EXCEPT !.session = "over"]
                           ELSE reqs[r]
                  IN IF r \in listeners.callEnd
                     THEN Reached([q EXCEPT !.pc = "ending"], "call-end")
                     ELSE q]
    /\ UNCHANGED <<config, ui, feedbacks, runs, candidates, interviews, stats, lastRun, wh,
                   runnerCalls, batch, emails, modelCalls>>

\* the session started by request s emits an error: every registered error
\* callback runs (onError)
ErrorEvent(s) ==
    /\ Idle
    /\ vapiToken
    /\ reqs[s].session \in {"starting", "active"}
    /\ listeners' = Deregister(listeners, listeners.error)
    /\ reqs' = [r \in 1..Len(reqs) |->
                  LET q == IF r = s THEN [reqs[r] EXCEPT !.session = "over"]
                           ELSE reqs[r]
                  IN IF r \in listeners.error
                     THEN Resolve(Reached(q, "error"), 500, "error")
                     ELSE q]
    /\ UNCHANGED <<config, ui, feedbacks, runs, candidates, interviews, stats, lastRun, wh,
                   runnerCalls, batch, emails, modelCalls>>

\* createEmailTransporter of the runner calls nodemailer.createTransporter, which
\* nodemailer does not export (its factory is createTransport): a TypeError
createEmailTransporter == "throws"

\* sendAdminNotification and sendCandidateFollowUp: the transporter is made
\* before the try block, so its exception leaves the function; a failure of
\* sendMail itself is caught and logged
sendNotification(mails, to) ==
    IF createEmailTransporter = "throws"
    THEN [mails |-> mails, threw |-> TRUE]
    ELSE [mails |-> Append(mails, to), threw |-> FALSE]

\* the two notifications of onCallEnd, the admin's first
sendNotifications(mails) ==
    LET admin == sendNotification(mails, "admin") IN
    IF admin.threw THEN admin ELSE sendNotification(admin.mails, "candidate")

\* a document of the collection feedback
Feedback(id, interviewId, userId, transcript) ==
    [id |-> id, interviewId |-> interviewId, userId |-> userId,
     transcript |-> transcript]

\* feedbackRef.set(feedback): the document of that id is replaced, or added
SetFeedback(fbs, doc) ==
    IF \E i \in 1..Len(fbs) : fbs[i].id = doc.id
    THEN [i \in 1..Len(fbs) |-> IF fbs[i].id = doc.id THEN doc ELSE fbs[i]]
    ELSE Append(fbs, doc)

\* createFeedback: nothing without the document store; else the model call (ok
\* when it and the write succeed), into the document feedbackId or a new one
createFeedback(fbs, interviewId, userId, transcript, feedbackId, ok) ==
    IF ~adminReady \/ ~ok
    THEN [feedbacks |-> fbs, success |-> FALSE, feedbackId |-> NoId]
    ELSE LET id == IF feedbackId # NoId THEN feedbackId
                   ELSE <<"feedback", Len(fbs) + 1>>
         IN [feedbacks |-> SetFeedback(fbs, Feedback(id, interviewId, userId, transcript)),
             success |-> TRUE, feedbackId |-> id]

\* the rest of onCallEnd: the report, the feedback, the update of the Interview,
\* the two emails, the response; any exception answers 500
onCallEnd(r, reportOk, feedbackOk) ==
    /\ Idle
    /\ reqs[r].pc = "ending"
    /\ IF ~reportOk
       THEN /\ reqs' = [reqs EXCEPT ![r] = Resolve([@ EXCEPT !.pc = "done"], 500, "report")]
            /\ UNCHANGED <<interviews, feedbacks>>
       ELSE LET i == interviews[InterviewNo(reqs[r].interviewId)] IN
            /\ feedbacks' = createFeedback(feedbacks, i.id, i.candidateId,
                                           reqs[r].transcript, NoId, feedbackOk).feedbacks
            /\ interviews' = [interviews EXCEPT
                                ![InterviewNo(reqs[r].interviewId)] =
                                    [@ EXCEPT !.status = "completed",
                                              !.transcript = reqs[r].transcript,
                                              !.report = TRUE]]
            /\ reqs' = [reqs EXCEPT ![r] =
                          LET sent == sendNotifications(reqs[r].mails)
                              q == [@ EXCEPT !.pc = "done", !.wrote = TRUE,
                                             !.mails = sent.mails]
                          IN IF sent.threw THEN Resolve(q, 500, "email")
                             ELSE Resolve(q, 200, "ok")]
    /\ UNCHANGED <<config, ui, runs, candidates, stats, listeners, lastRun, wh,
                   runnerCalls, batch, emails, modelCalls>>

\* the response of the webhook or of the rejected interview-run request is sent
Respond ==
    /\ ~Idle
    /\ wh' = NoWebhook
    /\ lastRun' = NoRun
    /\ UNCHANGED <<config, ui, feedbacks, runs, candidates, interviews, stats, reqs, listeners,
                   runnerCalls, batch, emails, modelCalls>>

(***************************************************************************)
(* Resume batch endpoint (POST /api/resume/process).                       *)
(***************************************************************************)
Pdf == "application/pdf"
Docx == "application/vnd.openxmlformats-officedocument.wordprocessingml.document"
Doc == "application/msword"
Txt == "text/plain"

\* allowedTypes
AllowedTypes == {Pdf, Docx, Doc}

File(type, content) == [type |-> type, content |-> content]

\* the text of a file is a sequence of characters; " " is white space
Files ==
    { File(Pdf, <<"a">>), File(Docx, <<>>), File(Docx, <<" ">>),
      File(Doc, <<"a", " ">>), File(Txt, <<"a">>) }

\* String.prototype.trim
RECURSIVE TrimLeft(_)
TrimLeft(t) == IF t # <<>> /\ Head(t) = " " THEN TrimLeft(Tail(t)) ELSE t
RECURSIVE TrimRight(_)
TrimRight(t) ==
    IF t # <<>> /\ t[Len(t)] = " " THEN TrimRight(SubSeq(t, 1, Len(t) - 1)) ELSE t
NoTrim(t) == t

Trim(t) == TrimRight(TrimLeft(t))

\* extractTextFromFile: a PDF yields the fixed fallback resume, a Word document
\* the text mammoth finds in it (or its bytes as text), anything else its bytes
FallbackResume == <<"P", "D", "F", " ", "D", "o", "c">>
extractTextFromFile(file) ==
    IF file.type = Pdf THEN FallbackResume ELSE file.content

\* what analyzeResume can return: the schema's scores and recommendation, the
\* email being "" for null
Analyses ==
    { Analysis(m, sk, 90, 90, 90, rec, email) :
        m \in {75, 90}, sk \in {75, 90}, rec \in {"yes", "no"},
        email \in {"", KnownEmail} }

\* meetsCriteria
meetsCriteria(ai) ==
    /\ ai.matchScore >= ShortlistThreshold
    /\ ai.skillsMatch >= ShortlistThreshold
    /\ ai.experienceMatch >= ShortlistThreshold
    /\ ai.roleAlignment >= ShortlistThreshold

\* candidate.matchScore || candidate.ai?.matchScore || 0, for a Candidate as the
\* batch makes it (the score is in ai only)
MatchScoreOf(c) == c.ai.matchScore

\* the statistics endpoint counts a Candidate as shortlisted
countsAsShortlisted(c) == MatchScoreOf(c) >= DisplayThreshold

\* the shortlisted page keeps a Candidate
shortlistedPageFilter(c) == MatchScoreOf(c) >= DisplayThreshold

\* the candidates page: shortlisted is true for the entries of run.shortlisted,
\* and ai.recommended === "yes" for the other stored candidates
candidatesPageFlag(shortlisted, c) ==
    IF \E e \in 1..Len(shortlisted) : shortlisted[e].id = c.id
    THEN TRUE
    ELSE c.ai.recommended = "yes"

TooManyFilesOffByOne(files) == Len(files) > MaxFiles + 1

\* files.length > 10
TooManyFiles(files) == Len(files) > MaxFiles

\* the validation of the request: the status it is refused with, or 0
BatchStatus(jobDescription, files) ==
    IF jobDescription = "" THEN 400
    ELSE IF Len(files) = 0 THEN 400
    ELSE IF TooManyFiles(files) THEN 400
    ELSE IF \E i \in 1..Len(files) : files[i].type \notin AllowedTypes THEN 400
    ELSE 0

\* the request arrives: validation, then the Run document (when the store is
\* configured; otherwise the run id is a "demo-run-..." string)
BatchStart(jobDescription, files) ==
    /\ batch.pc = "idle"
    /\ LET status == BatchStatus(jobDescription, files) IN
       IF status # 0
       THEN /\ batch' = [batch EXCEPT !.pc = "done", !.jobDescription = jobDescription,
                                      !.files = files, !.status = status]
            /\ UNCHANGED runs
       ELSE LET runId == IF adminReady THEN DocId(Len(runs) + 1) ELSE DemoId(0) IN
            /\ runs' = IF adminReady
                       THEN Append(runs, Run(runId, Len(files), <<>>, "processing"))
                       ELSE runs
            /\ batch' = [batch EXCEPT !.pc = "files", !.jobDescription = jobDescription,
                                      !.files = files, !.idx = 1, !.runId = runId]
    /\ UNCHANGED <<config, ui, feedbacks, candidates, interviews, stats, reqs, listeners, lastRun,
                   wh, runnerCalls, emails, modelCalls>>

\* one turn of the loop over the files, for a file without text
BatchSkip ==
    /\ batch.pc = "files"
    /\ batch.idx <= Len(batch.files)
    /\ Trim(extractTextFromFile(batch.files[batch.idx])) = <<>>
    /\ batch' = [batch EXCEPT !.idx = @ + 1]
    /\ UNCHANGED <<config, ui, feedbacks, runs, candidates, interviews, stats, reqs, listeners,
                   lastRun, wh, runnerCalls, emails, modelCalls>>

BatchFailAborts ==
    /\ batch.pc = "files"
    /\ batch.idx <= Len(batch.files)
    /\ Trim(extractTextFromFile(batch.files[batch.idx])) # <<>>
    /\ modelCalls' = modelCalls + 1
    /\ batch' = [batch EXCEPT !.pc = "done", !.status = 500,
                              !.failed = @ \cup {batch.idx}]
    /\ UNCHANGED <<config, ui, feedbacks, runs, candidates, interviews, stats, reqs,
                   listeners, lastRun, wh, runnerCalls, emails>>

\* one turn of the loop for a file whose analysis throws (model call or schema
\* validation): the catch logs it and the loop goes on
BatchFail ==
    /\ batch.pc = "files"
    /\ batch.idx <= Len(batch.files)
    /\ Trim(extractTextFromFile(batch.files[batch.idx])) # <<>>
    /\ modelCalls' = modelCalls + 1
    /\ batch' = [batch EXCEPT !.idx = @ + 1, !.failed = @ \cup {batch.idx}]
    /\ UNCHANGED <<config, ui, feedbacks, runs, candidates, interviews, stats, reqs, listeners,
                   lastRun, wh, runnerCalls, emails>>

\* one turn of the loop for a file that is analysed: the Candidate document is
\* stored under a fresh document id (when the store is configured), while the
\* response's candidate and the shortlist entry carry the "demo-candidate-..." id
BatchFile(ai) ==
    /\ batch.pc = "files"
    /\ batch.idx <= Len(batch.files)
    /\ Trim(extractTextFromFile(batch.files[batch.idx])) # <<>>
    /\ modelCalls' = modelCalls + 1
    /\ LET candidateId == DemoId(Len(batch.candidates) + 1)
           stored == Candidate(DocId(Len(candidates) + 1), batch.runId, ai)
       IN /\ candidates' = IF adminReady THEN Append(candidates, stored) ELSE candidates
          /\ batch' = [batch EXCEPT
                         !.idx = @ + 1,
                         !.candidates = Append(@, [stored EXCEPT !.id = candidateId]),
                         !.shortlisted = IF meetsCriteria(ai)
                                         THEN Append(@, ShortlistEntry(candidateId, ai))
                                         ELSE @]
    /\ UNCHANGED <<config, ui, feedbacks, runs, interviews, stats, reqs, listeners, lastRun, wh,
                   runnerCalls, emails>>

\* after the loop: the Run is updated, the shortlist emails are sent when SMTP is
\* configured, the statistics document is touched, the response is 200
BatchFinish ==
    /\ batch.pc = "files"
    /\ batch.idx > Len(batch.files)
    /\ runs' = IF adminReady
               THEN [runs EXCEPT ![batch.runId[2]] =
                        [@ EXCEPT !.shortlisted = batch.shortlisted,
                                  !.runStatus = "completed"]]
               ELSE runs
    /\ emails' = IF smtpConfigured
                 THEN emails \o [i \in 1..Len(batch.shortlisted) |->
                                    batch.shortlisted[i].email]
                 ELSE emails
    /\ stats' = IF adminReady THEN updateRecruitmentStatistics(stats) ELSE stats
    /\ batch' = [batch EXCEPT !.pc = "done", !.status = 200]
    /\ UNCHANGED <<config, ui, feedbacks, candidates, interviews, reqs, listeners, lastRun, wh,
                   runnerCalls, modelCalls>>

\* after the loop, the update of the Run throws (a failed store call): the catch
\* of the handler answers 500 and the Run is left as it is
BatchUpdateFails ==
    /\ batch.pc = "files"
    /\ batch.idx > Len(batch.files)
    /\ adminReady
    /\ batch' = [batch EXCEPT !.pc = "done", !.status = 500, !.storeFailed = TRUE]
    /\ UNCHANGED <<config, ui, feedbacks, runs, candidates, interviews, stats, reqs,
                   listeners, lastRun, wh, runnerCalls, emails, modelCalls>>

\* the requests of the model: every batch of at most MaxLen files, and batches of
\* MaxFiles and MaxFiles + 1 files without text
RECURSIVE SeqsUpTo(_, _)
SeqsUpTo(S, n) ==
    IF n = 0 THEN {<<>>}
    ELSE SeqsUpTo(S, n - 1) \cup
         {Append(q, x) : q \in {t \in SeqsUpTo(S, n - 1) : Len(t) = n - 1}, x \in S}

Batches ==
    SeqsUpTo(Files, MaxLen)
        \cup {[i \in 1..n |-> File(Docx, <<" ">>)] : n \in {MaxFiles, MaxFiles + 1}}

InitBatch ==
    /\ adminReady \in BOOLEAN
    /\ webhookSecret = "s3cret"
    /\ internalApiKey = "k1"
    /\ vapiToken = TRUE
    /\ smtpConfigured \in BOOLEAN
    /\ runs = <<>>
    /\ candidates = <<>>
    /\ interviews = <<>>
    /\ stats = NoStats
    /\ reqs = <<>>
    /\ listeners = NoListeners
    /\ lastRun = NoRun
    /\ wh = NoWebhook
    /\ runnerCalls = <<>>
    /\ batch = NoBatch
    /\ emails = <<>>
    /\ modelCalls = 0
    /\ feedbacks = <<>>
    /\ view = NoView
    /\ agent = NoAgent
    /\ practice = NoPractice
    /\ session = NoSession

NextBatch ==
    \/ \E jd \in {"", "Senior Python backend engineer"} : \E files \in Batches :
          BatchStart(jd, files)
    \/ BatchSkip
    \/ BatchFail
    \/ \E ai \in Analyses : BatchFile(ai)
    \/ BatchFinish
    \/ BatchUpdateFails

SpecBatch == InitBatch /\ [][NextBatch]_vars

\* the handler runs to its end: every await resolves or rejects
SpecBatchFair == SpecBatch /\ WF_vars(NextBatch)

(***************************************************************************)
(* Dashboard and statistics endpoints (GET), over a ledger as the batch,   *)
(* the webhook and the runner leave it.                                    *)
(***************************************************************************)
RECURSIVE Reverse(_)
Reverse(q) == IF q = <<>> THEN <<>> ELSE Append(Reverse(Tail(q)), Head(q))

RECURSIVE Sum(_)
Sum(q) == IF q = <<>> THEN 0 ELSE Head(q) + Sum(Tail(q))

\* Array.prototype.flatMap of the lists
RECURSIVE Flatten(_)
Flatten(qs) == IF qs = <<>> THEN <<>> ELSE Head(qs) \o Flatten(Tail(qs))

\* Math.round(average * 100) / 100 of sum / n, in hundredths
RoundedAverage(sum, n) == IF n = 0 THEN 0 ELSE (200 * sum + n) \div (2 * n)

dashboardDataFromStore(ready) ==
    [success |-> TRUE, status |-> 200, runs |-> Reverse(runs),
     interviews |-> Reverse(interviews),
     reads |-> {"recruit_runs", "recruit_interviews"}]

\* the answer of the dashboard endpoint: empty lists without the store, else the
\* runs and the interviews, newest first
dashboardData(ready) ==
    IF ~ready
    THEN [success |-> TRUE, status |-> 200, runs |-> <<>>, interviews |-> <<>>,
          reads |-> {}]
    ELSE [success |-> TRUE, status |-> 200, runs |-> Reverse(runs),
          interviews |-> Reverse(interviews),
          reads |-> {"recruit_runs", "recruit_interviews"}]

IsCompleted(i) == i.status = "completed"
IsScheduled(i) == i.status = "scheduled" \/ i.status = "in_progress"

totalRunsAndCalls(rs) == Len(rs) + view.n

\* allRuns.length
totalRuns(rs) == Len(rs)

\* the statistics computed from the three collections
StatsFromStore(rs, cs, is) ==
    LET shortlistedWithScores == SelectSeq(cs, countsAsShortlisted) IN
    [totalCandidates |-> Len(cs),
     shortlistedCandidates |-> Len(SelectSeq(cs, countsAsShortlisted)),
     interviewsCompleted |-> Len(SelectSeq(is, IsCompleted)),
     interviewsScheduled |-> Len(SelectSeq(is, IsScheduled)),
     totalRuns |-> totalRuns(rs),
     averageMatchScore |->
         RoundedAverage(Sum([k \in 1..Len(shortlistedWithScores) |->
                                MatchScoreOf(shortlistedWithScores[k])]),
                        Len(shortlistedWithScores))]

\* the statistics computed from the answer of the dashboard endpoint
StatsFromDashboard(rs, is) ==
    LET allShortlisted == Flatten([r \in 1..Len(rs) |-> rs[r].shortlisted])
    IN [totalCandidates |-> Sum([r \in 1..Len(rs) |-> rs[r].total]),
        shortlistedCandidates |-> Sum([r \in 1..Len(rs) |-> Len(rs[r].shortlisted)]),
        interviewsCompleted |-> Len(SelectSeq(is, IsCompleted)),
        interviewsScheduled |-> Len(SelectSeq(is, IsScheduled)),
        totalRuns |-> totalRuns(rs),
        averageMatchScore |->
            RoundedAverage(Sum([k \in 1..Len(allShortlisted) |->
                                   allShortlisted[k].matchScore]),
                           Len(allShortlisted))]

\* GET /api/recruit/dashboard; the handler does not look at the credentials
Dashboard(auth) ==
    /\ Idle
    /\ LET d == dashboardData(adminReady) IN
       view' = [view EXCEPT !.endpoint = "dashboard", !.auth = auth,
                            !.success = d.success, !.status = d.status,
                            !.runs = d.runs, !.interviews = d.interviews,
                            !.reads = d.reads]
    /\ UNCHANGED <<config, agent, site, feedbacks, runs, candidates, interviews, stats, reqs,
                   listeners, lastRun, wh, runnerCalls, batch, emails, modelCalls>>

\* GET of the statistics: without the store it asks the dashboard endpoint and
\* computes from its answer, else it reads the three collections
Statistics(auth) ==
    /\ Idle
    /\ view.n < MaxReads
    /\ LET d == dashboardData(adminReady) IN
       view' = [view EXCEPT
                  !.endpoint = "statistics", !.auth = auth,
                  !.success = TRUE, !.status = 200,
                  !.runs = <<>>, !.interviews = <<>>,
                  !.reads = IF adminReady
                            THEN {"recruit_candidates", "recruit_interviews",
                                  "recruit_runs"}
                            ELSE d.reads,
                  !.n = @ + 1,
                  !.stats = IF adminReady
                            THEN StatsFromStore(runs, candidates, interviews)
                            ELSE StatsFromDashboard(d.runs, d.interviews),
                  !.ledger = <<runs, candidates, interviews>>]
    /\ UNCHANGED <<config, agent, site, feedbacks, runs, candidates, interviews, stats, reqs,
                   listeners, lastRun, wh, runnerCalls, batch, emails, modelCalls>>

\* the ledgers of this specification: at most MaxLen Candidates of one Run, the
\* first with the known email, and Interviews of the first Candidate
StatScores == {65, 70, 85}
StatCandidate(k, m) ==
    Candidate(DocId(k), DocId(1),
              Analysis(m, m, m, m, m, IF m >= ShortlistThreshold THEN "yes" ELSE "no",
                       IF k = 1 THEN KnownEmail ELSE OtherEmail))
StatCandidates ==
    UNION {{[k \in 1..n |-> StatCandidate(k, f[k])] : f \in [1..n -> StatScores]} :
             n \in 0..MaxLen}
StatRuns(cs) ==
    IF cs = <<>> THEN <<>>
    ELSE LET met == SelectSeq(cs, LAMBDA c : meetsCriteria(c.ai)) IN
         <<Run(DocId(1), Len(cs),
               [k \in 1..Len(met) |-> ShortlistEntry(DemoId(met[k].id[2]), met[k].ai)],
               "completed")>>
StatInterview(k, c, st) ==
    [Interview(DocId(k), c, c.email, At(LookAheadHours + 1)) EXCEPT
        !.status = st, !.report = (st = "completed")]
StatInterviews(cs) ==
    IF cs = <<>> THEN {<<>>}
    ELSE UNION {{[k \in 1..n |-> StatInterview(k, cs[1], f[k])] :
                   f \in [1..n -> {"scheduled", "in_progress", "completed"}]} :
                  n \in 0..MaxWebhooks}

InitReads ==
    /\ adminReady \in BOOLEAN
    /\ webhookSecret = "s3cret"
    /\ internalApiKey = "k1"
    /\ vapiToken = TRUE
    /\ smtpConfigured = FALSE
    /\ candidates \in StatCandidates
    /\ runs = StatRuns(candidates)
    /\ interviews \in StatInterviews(candidates)
    /\ stats = [NoStats EXCEPT !.exists = adminReady]
    /\ reqs = <<>>
    /\ listeners = NoListeners
    /\ lastRun = NoRun
    /\ wh = NoWebhook
    /\ runnerCalls = <<>>
    /\ batch = NoBatch
    /\ emails = <<>>
    /\ modelCalls = 0
    /\ feedbacks = <<>>
    /\ view = NoView
    /\ agent = NoAgent
    /\ practice = NoPractice
    /\ session = NoSession

ReadAuths == {NoAuth, Auth("Bearer " \o ExpectedKey)}

ReadBodies ==
    { Body(TRUE, "invitee.created", TRUE, KnownEmail, At(LookAheadHours + 1)),
      Body(TRUE, "invitee.created", TRUE, UnknownEmail, At(LookAheadHours)) }

NextReads ==
    \/ \E a \in ReadAuths : Dashboard(a)
    \/ \E a \in ReadAuths : Statistics(a)
    \/ \E b \in ReadBodies : WebhookReject(b, Header(ExpectedSignature(b)))
    \/ \E b \in ReadBodies : WebhookCreate(b, Header(ExpectedSignature(b)))
    \/ Respond

SpecReads == InitReads /\ [][NextReads]_vars

(***************************************************************************)
(* The Agent component of a practice interview (client) and the feedback   *)
(* it asks createFeedback for.                                             *)
(***************************************************************************)
PracticeInterview == "interview-1"
PracticeUser == "user-1"
GivenFeedbackId == <<"feedback", 0>>

\* the component as mounted: useState initial values, with the props type and
\* feedbackId; session is the voice call, inflight the createFeedback calls,
\* calls the invocations of handleCall, workflow whether
\* NEXT_PUBLIC_VAPI_WORKFLOW_ID is set
NewAgent(type, feedbackId, workflow) ==
    [mounted |-> TRUE, type |-> type, feedbackId |-> feedbackId,
     workflow |-> workflow, callStatus |-> "INACTIVE", messages |-> <<>>,
     session |-> "none", emitted |-> 0, inflight |-> <<>>, calls |-> <<>>]

\* the second effect, run after a render that changed messages or callStatus:
\* once the call is FINISHED it leaves the page (type generate) or calls
\* handleGenerateFeedback with the messages it has
FeedbackEffect(a) ==
    IF a.callStatus # "FINISHED" THEN a
    ELSE IF a.type = "generate" THEN [a EXCEPT !.mounted = FALSE]
    ELSE [a EXCEPT !.inflight = Append(@, [transcript |-> a.messages, done |-> FALSE])]

\* the render after a state change: the effect runs when callStatus or messages
\* changed
Rendered(old, new) ==
    IF new.callStatus # old.callStatus \/ new.messages # old.messages
    THEN FeedbackEffect(new)
    ELSE new

\* one invocation of handleCall: pc is "first" while its first vapi.start is
\* pending, "fallback" while the second is, "returned" after; ok when an
\* attempt succeeded
NewCall(pc, attempts) == [pc |-> pc, attempts |-> attempts, ok |-> FALSE]

Pending(c) == c.pc \in {"first", "fallback"}

\* handleCall up to its first await: CONNECTING, then vapi.start; for type
\* generate without a workflow id the throw before vapi.start is caught and
\* the status is reset at once.  The button is rendered unless ACTIVE.
AgentHandleCall ==
    /\ agent.mounted
    /\ agent.callStatus # "ACTIVE"
    /\ Len(agent.calls) < MaxCalls
    /\ agent' = IF agent.type = "generate" /\ ~agent.workflow
                THEN Rendered(agent, [agent EXCEPT
                                        !.callStatus = "INACTIVE",
                                        !.calls = Append(@, NewCall("returned", 0))])
                ELSE Rendered(agent, [agent EXCEPT
                                        !.callStatus = "CONNECTING",
                                        !.calls = Append(@, NewCall("first", 1))])
    /\ UNCHANGED <<config, view, site, feedbacks, runs, candidates, interviews, stats, reqs,
                   listeners, lastRun, wh, runnerCalls, batch, emails, modelCalls>>

\* a pending vapi.start resolves and the client emits call-start: onCallStart,
\* and handleCall returns
AgentCallStart(k) ==
    /\ agent.mounted
    /\ Pending(agent.calls[k])
    /\ vapiToken
    /\ agent' = Rendered(agent, [agent EXCEPT !.callStatus = "ACTIVE",
                                              !.session = "live",
                                              !.calls[k].pc = "returned",
                                              !.calls[k].ok = TRUE])
    /\ UNCHANGED <<config, view, site, feedbacks, runs, candidates, interviews, stats, reqs,
                   listeners, lastRun, wh, runnerCalls, batch, emails, modelCalls>>

startFailedStaysConnecting(a, k, kind) ==
    IF a.calls[k].pc = "first" /\ kind = "token"
    THEN [a EXCEPT !.callStatus = "INACTIVE", !.calls[k].pc = "returned"]
    ELSE IF a.calls[k].pc = "first" /\ a.type = "generate" /\ kind = "assistant"
    THEN [a EXCEPT !.calls[k].pc = "fallback", !.calls[k].attempts = @ + 1]
    ELSE IF a.calls[k].pc = "fallback"
    THEN [a EXCEPT !.calls[k].pc = "returned"]
    ELSE [a EXCEPT !.callStatus = "INACTIVE", !.calls[k].pc = "returned"]

\* the catch of handleCall for invocation k, by the kind of the error message:
\* "token" (missing token or workflow id): reset and return; "assistant"
\* (assistant not found) for type generate: the fallback vapi.start; any other
\* message, and a failure of the fallback: reset
startFailed(a, k, kind) ==
    IF a.calls[k].pc = "first" /\ kind = "token"
    THEN [a EXCEPT !.callStatus = "INACTIVE", !.calls[k].pc = "returned"]
    ELSE IF a.calls[k].pc = "first" /\ a.type = "generate" /\ kind = "assistant"
    THEN [a EXCEPT !.calls[k].pc = "fallback", !.calls[k].attempts = @ + 1]
    ELSE [a EXCEPT !.callStatus = "INACTIVE", !.calls[k].pc = "returned"]

\* the messages a rejected vapi.start carries: NoopVapi names the missing
\* token, the real client an unknown assistant or anything else
StartErrors == IF vapiToken THEN {"assistant", "other"} ELSE {"token"}

\* a pending vapi.start of invocation k rejects
AgentStartFails(k, kind) ==
    /\ agent.mounted
    /\ Pending(agent.calls[k])
    /\ agent' = Rendered(agent, startFailed(agent, k, kind))
    /\ UNCHANGED <<config, view, site, feedbacks, runs, candidates, interviews, stats, reqs,
                   listeners, lastRun, wh, runnerCalls, batch, emails, modelCalls>>

\* the call emits a message: onMessage keeps the final transcripts
AgentMessage(final) ==
    /\ agent.mounted
    /\ agent.session = "live"
    /\ agent.emitted < MaxMsgs
    /\ agent' = IF final
                THEN FeedbackEffect([agent EXCEPT !.emitted = @ + 1,
                                                  !.messages = Append(@, agent.emitted + 1)])
                ELSE [agent EXCEPT !.emitted = @ + 1]
    /\ UNCHANGED <<config, view, site, feedbacks, runs, candidates, interviews, stats, reqs,
                   listeners, lastRun, wh, runnerCalls, batch, emails, modelCalls>>

\* handleDisconnect: FINISHED at once, then vapi.stop(); the call ends later
AgentDisconnect ==
    /\ agent.mounted
    /\ agent.callStatus = "ACTIVE"
    /\ agent' = FeedbackEffect([agent EXCEPT !.callStatus = "FINISHED"])
    /\ UNCHANGED <<config, view, site, feedbacks, runs, candidates, interviews, stats, reqs,
                   listeners, lastRun, wh, runnerCalls, batch, emails, modelCalls>>

\* the call ends and the client emits call-end: onCallEnd, when the component
\* is still mounted; setting the status it already has renders nothing
AgentCallEnd ==
    /\ agent.session = "live"
    /\ agent' = IF agent.mounted /\ agent.callStatus # "FINISHED"
                THEN FeedbackEffect([agent EXCEPT !.session = "ended",
                                                  !.callStatus = "FINISHED"])
                ELSE [agent EXCEPT !.session = "ended"]
    /\ UNCHANGED <<config, view, site, feedbacks, runs, candidates, interviews, stats, reqs,
                   listeners, lastRun, wh, runnerCalls, batch, emails, modelCalls>>

\* one createFeedback call returns; handleGenerateFeedback then leaves the page
AgentFeedbackDone(k, ok) ==
    /\ ~agent.inflight[k].done
    /\ feedbacks' = createFeedback(feedbacks, PracticeInterview, PracticeUser,
                                   agent.inflight[k].transcript, agent.feedbackId,
                                   ok).feedbacks
    /\ agent' = [agent EXCEPT !.inflight[k].done = TRUE, !.mounted = FALSE]
    /\ UNCHANGED <<config, view, site, runs, candidates, interviews, stats, reqs,
                   listeners, lastRun, wh, runnerCalls, batch, emails, modelCalls>>

InitAgent ==
    /\ adminReady \in BOOLEAN
    /\ webhookSecret = "s3cret"
    /\ internalApiKey = "k1"
    /\ vapiToken \in BOOLEAN
    /\ smtpConfigured = FALSE
    /\ runs = <<>>
    /\ candidates = <<>>
    /\ interviews = <<>>
    /\ stats = NoStats
    /\ reqs = <<>>
    /\ listeners = NoListeners
    /\ lastRun = NoRun
    /\ wh = NoWebhook
    /\ runnerCalls = <<>>
    /\ batch = NoBatch
    /\ emails = <<>>
    /\ modelCalls = 0
    /\ feedbacks = <<>>
    /\ view = NoView
    /\ agent \in {NewAgent(t, f, w) : t \in {"generate", "interview"},
                                      f \in {NoId, GivenFeedbackId}, w \in BOOLEAN}
    /\ practice = NoPractice
    /\ session = NoSession

NextAgent ==
    \/ AgentHandleCall
    \/ \E k \in 1..Len(agent.calls) : AgentCallStart(k)
    \/ \E k \in 1..Len(agent.calls) : \E kind \in StartErrors : AgentStartFails(k, kind)
    \/ \E final \in BOOLEAN : AgentMessage(final)
    \/ AgentDisconnect
    \/ AgentCallEnd
    \/ \E k \in 1..Len(agent.inflight) : \E ok \in BOOLEAN : AgentFeedbackDone(k, ok)

SpecAgent == InitAgent /\ [][NextAgent]_vars

(***************************************************************************)
(* A batch request and the scheduling callbacks for its candidates.        *)
(***************************************************************************)
LedgerAnalyses ==
    { Analysis(90, 90, 90, 90, 90, "yes", KnownEmail),
      Analysis(75, 75, 90, 90, 90, "no", OtherEmail) }

LedgerBatches == SeqsUpTo({File(Pdf, <<"a">>)}, MaxLen)

LedgerBodies ==
    { Body(TRUE, "invitee.created", TRUE, KnownEmail, At(LookAheadHours + 1)),
      Body(TRUE, "invitee.created", TRUE, UnknownEmail, At(LookAheadHours)) }

NextLedger ==
    \/ \E files \in LedgerBatches : BatchStart("Senior Python backend engineer", files)
    \/ BatchFail
    \/ \E ai \in LedgerAnalyses : BatchFile(ai)
    \/ BatchFinish
    \/ \E b \in LedgerBodies : WebhookReject(b, Header(ExpectedSignature(b)))
    \/ \E b \in LedgerBodies : WebhookCreate(b, Header(ExpectedSignature(b)))
    \/ Respond

SpecLedger == InitBatch /\ [][NextLedger]_vars

(***************************************************************************)
(* Queries on the practice interviews (collection interviews), with and    *)
(* without the composite index.                                            *)
(***************************************************************************)
PracticeUsers == {PracticeUser, "user-2"}

\* createdAt is an ISO string (new Date().toISOString()); ms is its instant
Iso(t) == [kind |-> "iso", ms |-> t]

\* toMs: 0 for a missing value, the instant of a Timestamp, Date.parse of a
\* string, 0 when that is NaN
toMs(value) ==
    IF value.kind = "missing" THEN 0
    ELSE IF value.kind = "timestamp" THEN value.ms
    ELSE IF value.kind = "iso" THEN value.ms
    ELSE 0

PracticeDoc(n, userId, finalized, createdAt) ==
    [id |-> <<"interview", n>>, userId |-> userId, finalized |-> finalized,
     createdAt |-> createdAt]

Max(a, b) == IF a >= b THEN a ELSE b
Take(q, n) == SubSeq(q, 1, IF n <= Len(q) THEN n ELSE Len(q))

\* .orderBy("createdAt", "desc"): the documents by descending createdAt (ISO
\* strings of one format order as their instants do)
RECURSIVE OrderByCreatedAtDesc(_)
OrderByCreatedAtDesc(q) ==
    IF q = <<>> THEN <<>>
    ELSE LET rest == OrderByCreatedAtDesc(Tail(q))
             before == SelectSeq(rest, LAMBDA d : d.createdAt.ms >= Head(q).createdAt.ms)
             after == SelectSeq(rest, LAMBDA d : d.createdAt.ms < Head(q).createdAt.ms)
         IN before \o <<Head(q)>> \o after

\* items.sort((a, b) => toMs(b.createdAt) - toMs(a.createdAt)): a stable sort
RECURSIVE SortByMsDesc(_)
SortByMsDesc(q) ==
    IF q = <<>> THEN <<>>
    ELSE LET rest == SortByMsDesc(Tail(q))
             before == SelectSeq(rest, LAMBDA d : toMs(d.createdAt) > toMs(Head(q).createdAt))
             after == SelectSeq(rest, LAMBDA d : toMs(d.createdAt) <= toMs(Head(q).createdAt))
         IN before \o <<Head(q)>> \o after

IsFinalized(d) == d.finalized

\* the indexed query of getLatestInterviews and what the function makes of it
getLatestInterviewsIndexed(docs, userId, limit) ==
    LET snapshot == Take(OrderByCreatedAtDesc(SelectSeq(docs, IsFinalized)),
                         Max(limit * 2, limit))
        filtered == SelectSeq(snapshot, LAMBDA it : it.userId # userId)
    IN Take(filtered, limit)

\* the fallback of getLatestInterviews: no orderBy (document order), then the
\* sort, the filter and the slice in memory
getLatestInterviewsFallback(docs, userId, limit) ==
    LET fallback == Take(SelectSeq(docs, IsFinalized), Max(limit * 3, limit))
        items == SortByMsDesc(fallback)
        filtered == SelectSeq(items, LAMBDA it : it.userId # userId)
    IN Take(filtered, limit)

getLatestInterviews(docs, userId, limit, missingIndex) ==
    IF ~adminReady THEN <<>>
    ELSE IF missingIndex THEN getLatestInterviewsFallback(docs, userId, limit)
    ELSE getLatestInterviewsIndexed(docs, userId, limit)

getInterviewsByUserIdIndexed(docs, userId) ==
    OrderByCreatedAtDesc(SelectSeq(docs, LAMBDA d : d.userId = userId))

getInterviewsByUserIdFallback(docs, userId) ==
    SortByMsDesc(SelectSeq(docs, LAMBDA d : d.userId = userId))

getInterviewsByUserId(docs, userId, missingIndex) ==
    IF ~adminReady THEN <<>>
    ELSE IF missingIndex THEN getInterviewsByUserIdFallback(docs, userId)
    ELSE getInterviewsByUserIdIndexed(docs, userId)

\* a call of getLatestInterviews; indexed is what the indexed query gives on
\* the same documents
GetLatestInterviews(userId, limit, missingIndex) ==
    /\ practice' = [practice EXCEPT
                      !.query = [fn |-> "getLatestInterviews", userId |-> userId,
                                 limit |-> limit, missingIndex |-> missingIndex],
                      !.result = getLatestInterviews(practice.docs, userId, limit,
                                                     missingIndex),
                      !.indexed = getLatestInterviews(practice.docs, userId, limit,
                                                      FALSE)]
    /\ UNCHANGED <<config, view, agent, session, feedbacks, runs, candidates,
                   interviews, stats, reqs, listeners, lastRun, wh, runnerCalls,
                   batch, emails, modelCalls>>

\* a call of getInterviewsByUserId
GetInterviewsByUserId(userId, missingIndex) ==
    /\ practice' = [practice EXCEPT
                      !.query = [fn |-> "getInterviewsByUserId", userId |-> userId,
                                 limit |-> 0, missingIndex |-> missingIndex],
                      !.result = getInterviewsByUserId(practice.docs, userId,
                                                       missingIndex),
                      !.indexed = getInterviewsByUserId(practice.docs, userId, FALSE)]
    /\ UNCHANGED <<config, view, agent, session, feedbacks, runs, candidates,
                   interviews, stats, reqs, listeners, lastRun, wh, runnerCalls,
                   batch, emails, modelCalls>>

\* the stored practice interviews: at most MaxDocs documents in document order,
\* created at distinct instants
PracticeCollections ==
    UNION {{[k \in 1..n |-> PracticeDoc(k, u[k], f[k], Iso(t[k]))] :
              u \in [1..n -> PracticeUsers], f \in [1..n -> BOOLEAN],
              t \in {p \in [1..n -> 1..n] : \A i, j \in 1..n : p[i] = p[j] => i = j}} :
            n \in 0..MaxDocs}

Limits == {1, 2}

InitQueries ==
    /\ adminReady \in BOOLEAN
    /\ webhookSecret = "s3cret"
    /\ internalApiKey = "k1"
    /\ vapiToken = TRUE
    /\ smtpConfigured = FALSE
    /\ runs = <<>>
    /\ candidates = <<>>
    /\ interviews = <<>>
    /\ stats = NoStats
    /\ reqs = <<>>
    /\ listeners = NoListeners
    /\ lastRun = NoRun
    /\ wh = NoWebhook
    /\ runnerCalls = <<>>
    /\ batch = NoBatch
    /\ emails = <<>>
    /\ modelCalls = 0
    /\ feedbacks = <<>>
    /\ view = NoView
    /\ agent = NoAgent
    /\ practice \in {[NoPractice EXCEPT !.docs = docs] : docs \in PracticeCollections}
    /\ session = NoSession

NextQueries ==
    \/ \E u \in PracticeUsers : \E limit \in Limits : \E missing \in BOOLEAN :
          GetLatestInterviews(u, limit, missing)
    \/ \E u \in PracticeUsers : \E missing \in BOOLEAN :
          GetInterviewsByUserId(u, missing)

SpecQueries == InitQueries /\ [][NextQueries]_vars

(***************************************************************************)
(* The session cookie of the practice application: getCurrentUser,         *)
(* isAuthenticated and the protected layout.                               *)
(***************************************************************************)
\* one dot-separated part of a cookie value, as Buffer.from(part, "base64") and
\* JSON.parse see it: json is FALSE when it does not parse, and an absent field
\* is ""
Part(json, user_id, uid, sub) ==
    [json |-> json, user_id |-> user_id, uid |-> uid, sub |-> sub]
Opaque == Part(FALSE, "", "", "")

\* a cookie value of these parts; valid: auth.verifySessionCookie accepts it
\* (signed by the project, not expired, not revoked)
Cookie(parts, valid) == [present |-> TRUE, parts |-> parts, valid |-> valid]

\* payload.user_id || payload.uid || payload.sub
UserIdOf(payload) ==
    IF payload.user_id # "" THEN payload.user_id
    ELSE IF payload.uid # "" THEN payload.uid
    ELSE payload.sub

\* the cookie read as a raw ID token without verification
DecodeUnverified(cookie) ==
    IF Len(cookie.parts) < 2 THEN NoUser
    ELSE IF ~cookie.parts[2].json THEN NoUser
    ELSE IF UserIdOf(cookie.parts[2]) = "" THEN NoUser
    ELSE [id |-> UserIdOf(cookie.parts[2]), source |-> "cookie"]

\* getCurrentUser: null without a cookie value; without the admin SDK the
\* unverified payload; else the user document of the verified uid, and when
\* verifySessionCookie throws, the unverified payload again
getCurrentUser(cookie, users) ==
    IF ~cookie.present \/ cookie.parts = <<>> THEN NoUser
    ELSE IF ~adminReady THEN DecodeUnverified(cookie)
    ELSE IF cookie.valid
    THEN (IF cookie.parts[2].sub \in users
          THEN [id |-> cookie.parts[2].sub, source |-> "users"]
          ELSE NoUser)
    ELSE DecodeUnverified(cookie)

\* isAuthenticated
isAuthenticated(cookie, users) == getCurrentUser(cookie, users) # NoUser

\* a server action or page asks for the current user of a request
GetCurrentUser(cookie) ==
    /\ session' = [session EXCEPT !.cookie = cookie, !.asked = "getCurrentUser",
                                  !.user = getCurrentUser(cookie, session.users),
                                  !.page = "none"]
    /\ UNCHANGED <<config, view, agent, practice, feedbacks, runs, candidates,
                   interviews, stats, reqs, listeners, lastRun, wh, runnerCalls,
                   batch, emails, modelCalls>>

\* the protected layout renders for a request, or redirects to /sign-in
Layout(cookie) ==
    /\ session' = [session EXCEPT !.cookie = cookie, !.asked = "layout",
                                  !.user = getCurrentUser(cookie, session.users),
                                  !.page = IF isAuthenticated(cookie, session.users)
                                           THEN "protected" ELSE "sign-in"]
    /\ UNCHANGED <<config, view, agent, practice, feedbacks, runs, candidates,
                   interviews, stats, reqs, listeners, lastRun, wh, runnerCalls,
                   batch, emails, modelCalls>>

\* the cookies a browser can send: none, the empty string, a session cookie or
\* ID token of a user (accepted by the verification or not: expired, revoked,
\* forged), and values that are no token
Cookies ==
    {NoCookie, Cookie(<<>>, FALSE), Cookie(<<Opaque>>, FALSE),
     Cookie(<<Opaque, Opaque, Opaque>>, FALSE),
     Cookie(<<Opaque, Part(TRUE, "", "", "")>>, FALSE)}
      \cup {Cookie(<<Opaque, Part(TRUE, u, "", u), Opaque>>, valid) :
               u \in PracticeUsers, valid \in BOOLEAN}
      \cup {Cookie(<<Opaque, Part(TRUE, "", u, ""), Opaque>>, FALSE) :
               u \in PracticeUsers}

InitAuth ==
    /\ adminReady \in BOOLEAN
    /\ webhookSecret = "s3cret"
    /\ internalApiKey = "k1"
    /\ vapiToken = TRUE
    /\ smtpConfigured = FALSE
    /\ runs = <<>>
    /\ candidates = <<>>
    /\ interviews = <<>>
    /\ stats = NoStats
    /\ reqs = <<>>
    /\ listeners = NoListeners
    /\ lastRun = NoRun
    /\ wh = NoWebhook
    /\ runnerCalls = <<>>
    /\ batch = NoBatch
    /\ emails = <<>>
    /\ modelCalls = 0
    /\ feedbacks = <<>>
    /\ view = NoView
    /\ agent = NoAgent
    /\ practice = NoPractice
    /\ session \in {[NoSession EXCEPT !.users = users] : users \in SUBSET PracticeUsers}

NextAuth ==
    \/ \E cookie \in Cookies : GetCurrentUser(cookie)
    \/ \E cookie \in Cookies : Layout(cookie)

SpecAuth == InitAuth /\ [][NextAuth]_vars

(***************************************************************************)
(* The interview pipeline: webhook deliveries and interview-run requests   *)
(* over a ledger that earlier batch requests filled.                       *)
(***************************************************************************)
SeedAnalysis == Analysis(90, 90, 90, 90, 90, "yes", KnownEmail)

SeedCandidates ==
    [i \in 1..2 |->
        Candidate(DocId(i), DocId(i),
                  [SeedAnalysis EXCEPT !.email = IF i = 1 THEN KnownEmail ELSE OtherEmail])]

SeedRuns == [i \in 1..2 |->
               Run(DocId(i), 1, <<ShortlistEntry(DemoId(i), SeedCandidates[i].ai)>>, "completed")]
\* the state before any delivery or request, the configuration apart
Start ==
    /\ runs = SeedRuns
    /\ candidates = SeedCandidates
    /\ interviews = <<>>
    /\ stats = [NoStats EXCEPT !.exists = adminReady]
    /\ reqs = <<>>
    /\ listeners = NoListeners
    /\ lastRun = NoRun
    /\ wh = NoWebhook
    /\ runnerCalls = <<>>
    /\ batch = NoBatch
    /\ emails = <<>>
    /\ modelCalls = 0
    /\ feedbacks = <<>>
    /\ view = NoView
    /\ agent = NoAgent
    /\ practice = NoPractice
    /\ session = NoSession

Init ==
    /\ adminReady \in BOOLEAN
    /\ webhookSecret = "s3cret"
    /\ internalApiKey = "k1"
    /\ vapiToken \in BOOLEAN
    /\ smtpConfigured = FALSE
    /\ Start

\* the deliveries and requests of the pipeline specification: signed deliveries
\* that create an Interview inside and outside the look-ahead window, one for an
\* unknown candidate, and interview-run requests with and without the key
PipelineBodies ==
    { Body(TRUE, "invitee.created", TRUE, KnownEmail, At(LookAheadHours)),
      Body(TRUE, "invitee.created", TRUE, KnownEmail, At(LookAheadHours + 1)),
      Body(TRUE, "invitee.created", TRUE, KnownEmail, BadTime),
      Body(TRUE, "invitee.created", TRUE, UnknownEmail, At(LookAheadHours)) }
PipelineRuns ==
    {<<Auth("Bearer " \o ExpectedKey), id>> : id \in InterviewIds}
        \cup {<<Auth("Bearer wrong"), NoId>>}

Session ==
    \/ \E r \in 1..Len(reqs) : StartOk(r)
    \/ \E r \in 1..Len(reqs) : StartReject(r)
    \/ \E s \in 1..Len(reqs) : \E m \in Messages(s, reqs[s].emitted + 1) :
          MessageEvent(s, m)
    \/ \E s \in 1..Len(reqs) : CallEndEvent(s)
    \/ \E s \in 1..Len(reqs) : ErrorEvent(s)
    \/ \E r \in 1..Len(reqs) : \E ok \in BOOLEAN : \E fb \in BOOLEAN :
          onCallEnd(r, ok, fb)

Next ==
    \/ \E b \in PipelineBodies : WebhookReject(b, Header(ExpectedSignature(b)))
    \/ \E b \in PipelineBodies : WebhookCreate(b, Header(ExpectedSignature(b)))
    \/ \E x \in PipelineRuns : RunExternal(x[1], x[2])
    \/ \E k \in 1..Len(runnerCalls) : RunInternal(k)
    \/ Session
    \/ Respond

Spec == Init /\ [][Next]_vars

(***************************************************************************)
(* The voice sessions of interview-run requests for Interviews that the    *)
(* webhook has scheduled; every started step of a handler or of the voice  *)
(* client comes to its end.                                                *)
(***************************************************************************)
ScheduledInterviews ==
    [i \in 1..MaxWebhooks |->
        Interview(DocId(i), SeedCandidates[1], KnownEmail, At(LookAheadHours + 1))]

InitSessions ==
    /\ adminReady = TRUE
    /\ webhookSecret = "s3cret"
    /\ internalApiKey = "k1"
    /\ vapiToken \in BOOLEAN
    /\ smtpConfigured = FALSE
    /\ runs = SeedRuns
    /\ candidates = SeedCandidates
    /\ interviews = ScheduledInterviews
    /\ stats = [NoStats EXCEPT !.exists = TRUE]
    /\ reqs = <<>>
    /\ listeners = NoListeners
    /\ lastRun = NoRun
    /\ wh = NoWebhook
    /\ runnerCalls = <<>>
    /\ batch = NoBatch
    /\ emails = <<>>
    /\ modelCalls = 0
    /\ feedbacks = <<>>
    /\ view = NoView
    /\ agent = NoAgent
    /\ practice = NoPractice
    /\ session = NoSession

NextSessions ==
    \/ \E id \in InterviewIds : RunExternal(Auth("Bearer " \o ExpectedKey), id)
    \/ Session

SpecSessions == InitSessions /\ [][NextSessions]_vars

\* the voice client rejects the start or emits call-end or error, and the
\* awaits of onCallEnd return
SpecSessionsFair == SpecSessions /\ WF_vars(NextSessions)

(***************************************************************************)
(* The webhook receiver alone, over every body and signature of the model. *)
(***************************************************************************)
InitWebhook ==
    /\ adminReady \in BOOLEAN
    /\ webhookSecret \in {"", "s3cret"}
    /\ internalApiKey = "k1"
    /\ vapiToken = TRUE
    /\ smtpConfigured = FALSE
    /\ Start

NextWebhook ==
    \/ \E b \in Bodies : \E sig \in Signatures(b) : WebhookReject(b, sig)
    \/ \E b \in Bodies : \E sig \in Signatures(b) : WebhookCreate(b, sig)
    \/ Respond

SpecWebhook == InitWebhook /\ [][NextWebhook]_vars

(***************************************************************************)
(* The gate of the interview runner: requests with every Authorization     *)
(* header and interview id of the model, over Interviews the webhook made. *)
(***************************************************************************)
InitRunner ==
    /\ adminReady \in BOOLEAN
    /\ webhookSecret = "s3cret"
    /\ internalApiKey \in {"", "k1"}
    /\ vapiToken \in BOOLEAN
    /\ smtpConfigured = FALSE
    /\ Start

\* the callbacks that make the Interviews of this specification
RunnerBodies ==
    { Body(TRUE, "invitee.created", TRUE, KnownEmail, At(LookAheadHours)),
      Body(TRUE, "invitee.created", TRUE, KnownEmail, At(LookAheadHours + 1)) }

NextRunner ==
    \/ \E b \in RunnerBodies : WebhookReject(b, Header(ExpectedSignature(b)))
    \/ \E b \in RunnerBodies : WebhookCreate(b, Header(ExpectedSignature(b)))
    \/ \E a \in AuthHeaders : \E id \in RunIds : RunExternal(a, id)
    \/ \E k \in 1..Len(runnerCalls) : RunInternal(k)
    \/ \E r \in 1..Len(reqs) : StartReject(r)
    \/ Respond

SpecRunner == InitRunner /\ [][NextRunner]_vars

(***************************************************************************)
(* Claims about the interview pipeline.                                    *)
(***************************************************************************)
AllowedTransitions ==
    { <<"scheduled", "in_progress">>, <<"in_progress", "completed">>,
      <<"in_progress", "failed">> }

\* C1: every change of an Interview's stored status is scheduled -> in_progress,
\* in_progress -> completed or in_progress -> failed; in particular a completed
\* or failed Interview never changes status again.
C1_StatusTransitions ==
    [][\A i \in 1..Len(interviews) :
          interviews'[i].status # interviews[i].status
              => <<interviews[i].status, interviews'[i].status>> \in AllowedTransitions]_vars

\* C2: once a request was resolved by a failed start or by a session error, its
\* Interview is stored as failed and the response is a failure.
C2_FailedOnSessionError ==
    \A r \in 1..Len(reqs) :
        reqs[r].cause \in {"start", "error"}
            => /\ interviews[InterviewNo(reqs[r].interviewId)].status = "failed"
               /\ reqs[r].status >= 400

\* C5: a request's transcript accumulator holds only what its own session said,
\* and a request is completed or failed by a session event only when its own
\* session is over.
C5_RequestIsolation ==
    \A r \in 1..Len(reqs) :
        /\ \A k \in 1..Len(reqs[r].transcript) : reqs[r].transcript[k].content[2] = r
        /\ reqs[r].pc \in {"ending", "done"} => reqs[r].session = "over"
        /\ reqs[r].cause = "error" => reqs[r].session = "over"

WebhookCalled(i) == \E k \in 1..Len(runnerCalls) : runnerCalls[k].interviewId = DocId(i)

RequestedFromOutside(i) ==
    \E r \in 1..Len(reqs) : reqs[r].interviewId = DocId(i) /\ reqs[r].origin = "external"

\* C6: the webhook handler calls the runner for a created Interview, with the
\* internal bearer token, exactly when its start time is at most 72 hours away;
\* an Interview farther away is called by no step of the system and, unless
\* someone else requests its run, stays scheduled.
C6_LookAheadTrigger ==
    /\ \A i \in 1..Len(interviews) :
         LET at == interviews[i].scheduledAt IN
         /\ WebhookCalled(i) <=> (at.kind = "time" /\ at.hours <= 72)
         /\ ~(at.kind = "time" /\ at.hours <= 72) /\ ~RequestedFromOutside(i)
               => interviews[i].status = "scheduled"
    /\ \A k \in 1..Len(runnerCalls) : runnerCalls[k].auth.value = "Bearer " \o ExpectedKey
    /\ \A r \in 1..Len(reqs) :
         reqs[r].origin = "webhook"
             => LET at == interviews[InterviewNo(reqs[r].interviewId)].scheduledAt
                IN at.kind = "time" /\ at.hours <= 72

\* both cases of C6 have happened: an Interview inside the window whose run the
\* webhook requested and that left status scheduled, and one outside it
C6_Witness ==
    \E i, j \in 1..Len(interviews) :
        /\ interviews[i].scheduledAt = At(72) /\ WebhookCalled(i)
        /\ interviews[i].status = "completed"
        /\ interviews[j].scheduledAt = At(73) /\ ~WebhookCalled(j)
        /\ interviews[j].status = "scheduled"

(***************************************************************************)
(* Claims about the webhook receiver.                                      *)
(***************************************************************************)
\* the header carries the hex HMAC of the body (hex letters of either case)
CarriesHmac(w) ==
    /\ w.signature.present
    /\ \/ w.signature.value = HexEncode(HmacDigest(webhookSecret, w.body))
       \/ w.signature.value = ToUpper(HexEncode(HmacDigest(webhookSecret, w.body)))

\* C3: with a webhook secret and the store configured, a delivery whose
\* signature header is not the hex HMAC-SHA256 of the body is answered 401 and
\* creates no Interview (so triggers no runner call).
C3_SignatureRequired ==
    (wh.answered /\ adminReady /\ webhookSecret # "" /\ ~CarriesHmac(wh))
        => (wh.status = 401 /\ wh.created = NoId)

\* the delivery was not rejected for its signature: no secret, no signature to
\* check, or a signature that decodes to the digest of the body
SignaturePasses(w) ==
    \/ webhookSecret = ""
    \/ ~w.signature.present
    \/ w.signature.value = <<>>
    \/ HexDecode(w.signature.value) = HmacDigest(webhookSecret, w.body)

WellFormed(b) == b.json /\ (b.event = "invitee.created" => b.payload)

LacksField(b) ==
    b.event = "invitee.created"
        /\ (b.email = "" \/ b.scheduledAt.kind = "missing")

ExactBearer(a) == a.present /\ a.value = "Bearer " \o ExpectedKey

C4_Gate ==
    /\ (lastRun.answered /\ ~ExactBearer(lastRun.auth))
          => (lastRun.status = (IF adminReady THEN 401 ELSE 500))
    /\ \A r \in 1..Len(reqs) : ExactBearer(reqs[r].auth)

Succeeded == batch.pc = "done" /\ batch.status = 200

\* the Candidate documents stored for the run of the request
CandidatesOfRun == {i \in 1..Len(candidates) : candidates[i].runId = batch.runId}

\* the Run documents stored for the request
RunsOfRequest == {i \in 1..Len(runs) : runs[i].id = batch.runId}

NonEmptyFiles ==
    {i \in 1..Len(batch.files) : extractTextFromFile(batch.files[i]) # <<>>}

\* a text with a character that is not white space
NonBlank(t) == \E k \in 1..Len(t) : t[k] # " "

NonBlankFiles ==
    {i \in 1..Len(batch.files) : NonBlank(extractTextFromFile(batch.files[i]))}

InvalidRequest ==
    \/ batch.jobDescription = ""
    \/ Len(batch.files) = 0
    \/ Len(batch.files) > MaxFiles
    \/ \E i \in 1..Len(batch.files) : batch.files[i].type \notin {Pdf, Docx, Doc}

C10_ShortlistedAreRecommended ==
    \A r \in 1..Len(runs) :
        \A e \in 1..Len(runs[r].shortlisted) :
            \E c \in 1..Len(candidates) :
                /\ candidates[c].id = runs[r].shortlisted[e].id
                /\ candidates[c].runId = runs[r].id
                /\ candidates[c].ai.recommended = "yes"

\* the batch pushed the candidate to the shortlist of the Run
PushedToShortlist(c) ==
    \E e \in 1..Len(batch.shortlisted) : batch.shortlisted[e].id = c.id

\* C11 as stated: for every analysed candidate the shortlist push of the batch,
\* the shortlisted count of the statistics, the filter of the shortlisted page
\* and the flag of the candidates page give the same answer
C11_UniformShortlistDecision ==
    \A k \in 1..Len(batch.candidates) :
        LET c == batch.candidates[k] IN
        /\ PushedToShortlist(c) = countsAsShortlisted(c)
        /\ PushedToShortlist(c) = shortlistedPageFilter(c)
        /\ PushedToShortlist(c) = candidatesPageFlag(batch.shortlisted, c)

\* C12 as stated: a Run changes status only from processing to completed or
\* failed, only after every file of the batch has been processed, and no Run
\* stays in status processing forever
C12_RunLifecycle ==
    /\ [][\A r \in 1..Len(runs) :
            runs'[r].runStatus # runs[r].runStatus =>
                /\ runs[r].runStatus = "processing"
                /\ runs'[r].runStatus \in {"completed", "failed"}
                /\ batch.idx > Len(batch.files)]_vars
    /\ <>[](\A r \in 1..Len(runs) : runs[r].runStatus # "processing")

\* C13 as stated: with the document store not configured, the webhook and the
\* interview-run request skip their writes and are answered without an error
C13_DemoModeNeverFails ==
    ~adminReady =>
        /\ wh.answered => wh.status < 400
        /\ lastRun.answered => lastRun.status < 400

C16_ReadsRequireCredentials ==
    view.reads # {} => view.auth = Auth("Bearer " \o ExpectedKey)

(***************************************************************************)
(* Properties of the Agent component (SpecAgent).                          *)
(***************************************************************************)
PracticeFeedbacks ==
    {i \in 1..Len(feedbacks) : feedbacks[i].interviewId = PracticeInterview}

\* C17 as stated (its safety part): a practice interview has at most one
\* Feedback record, and a Feedback record once written is never overwritten
C17_OneFeedbackNeverOverwritten ==
    /\ [](Cardinality(PracticeFeedbacks) <= 1)
    /\ [][\A i \in 1..Len(feedbacks) : feedbacks'[i] = feedbacks[i]]_vars

(***************************************************************************)
(* Callbacks of the interview runner (Spec).                               *)
(***************************************************************************)
Registered(r) == r \in listeners.message \cup listeners.callEnd \cup listeners.error

\* C18: once a terminal event (call-end, session error, rejected start) has
\* reached an interview-run request, none of its three callbacks is registered
\* on the voice client any more, in particular after the request has resolved
C18_CallbacksDeregistered ==
    \A r \in 1..Len(reqs) :
        (reqs[r].status # 0 \/ reqs[r].pc \in {"ending", "done"}) => ~Registered(r)

\* with a real voice client, one request ended by call-end, one by an error
C18_Witness ==
    /\ vapiToken
    /\ \E r \in 1..Len(reqs) : reqs[r].pc = "done" /\ reqs[r].cause \in {"ok", "email"}
    /\ \E r \in 1..Len(reqs) : reqs[r].status = 500 /\ reqs[r].cause = "error"

(***************************************************************************)
(* Failure of one file of a batch (SpecBatch).                             *)
(***************************************************************************)
RunCompleted ==
    /\ RunsOfRequest # {}
    /\ \A i \in RunsOfRequest : runs[i].runStatus = "completed"

BelongsToCandidate(i) ==
    \E c \in 1..Len(candidates) :
        candidates[c].id = i.candidateId /\ candidates[c].runId = i.runId

\* C20: an Interview is created in status scheduled; every Interview names an
\* existing Candidate and carries its runId; every Candidate carries the id of
\* the one Run that the batch request producing it created
C20_Ownership ==
    /\ [](\A k \in 1..Len(interviews) : BelongsToCandidate(interviews[k]))
    /\ [](\A c \in 1..Len(candidates) :
            /\ candidates[c].runId = batch.runId
            /\ Cardinality({r \in 1..Len(runs) : runs[r].id = candidates[c].runId}) = 1)
    /\ [][Len(interviews') > Len(interviews) =>
            interviews'[Len(interviews')].status = "scheduled"]_vars

\* an Interview for a Candidate of a finished batch of two
C20_Witness ==
    /\ batch.pc = "done"
    /\ Len(candidates) = 2
    /\ Len(interviews) > 0

(***************************************************************************)
(* Completion of an interview run (Spec).                                  *)
(***************************************************************************)
\* C21 as stated: every completed Interview has its report; a request hands a
\* notification to the mail transport only after it stored report and status;
\* and a request that stored them has attempted the admin email and then the
\* candidate email
C21_ReportThenEmails ==
    /\ \A i \in 1..Len(interviews) :
          interviews[i].status = "completed" => interviews[i].report
    /\ \A r \in 1..Len(reqs) : reqs[r].mails # <<>> => reqs[r].wrote
    /\ \A r \in 1..Len(reqs) :
          (reqs[r].pc = "done" /\ reqs[r].wrote)
              => reqs[r].mails = <<"admin", "candidate">>

(***************************************************************************)
(* The statistics snapshot document (SpecBatchFair).                       *)
(***************************************************************************)
\* the snapshot document carries the numbers derived from the ledger
SnapshotConsistent ==
    LET derived == StatsFromStore(runs, candidates, interviews) IN
    /\ stats.totalCandidates = derived.totalCandidates
    /\ stats.shortlistedCandidates = derived.shortlistedCandidates
    /\ stats.interviewsCompleted = derived.interviewsCompleted
    /\ stats.interviewsScheduled = derived.interviewsScheduled
    /\ stats.totalRuns = derived.totalRuns
    /\ stats.averageMatchScore = derived.averageMatchScore

\* C22 as stated: once the writes of the batch have stopped, the snapshot
\* document recruitment_stats/current carries, from some moment on, the totals
\* derived from the stored Runs, Candidates and Interviews
C22_SnapshotEventuallyConsistent == <>[]SnapshotConsistent

(***************************************************************************)
(* The queries on the practice interviews (SpecQueries).                   *)
(***************************************************************************)
\* C23 as stated: when the indexed query fails for a missing index, both
\* functions return the list the indexed query gives on the same documents; for
\* getLatestInterviews it has at most limit records, none of the given user
C23_FallbackEquivalent ==
    practice.query.missingIndex =>
        /\ practice.result = practice.indexed
        /\ practice.query.fn = "getLatestInterviews" =>
              /\ Len(practice.result) <= practice.query.limit
              /\ \A k \in 1..Len(practice.result) :
                    practice.result[k].userId # practice.query.userId

(***************************************************************************)
(* The response of an interview run (Spec).                                *)
(***************************************************************************)
\* the request is answered in this step
AnsweredNow(r) ==
    /\ reqs'[r].status # 0
    /\ r \in 1..Len(reqs) => reqs[r].status = 0

\* C24 as stated: an interview-run request is answered with success exactly
\* when it stored the status completed for its Interview, and at the moment it
\* is answered with a failure its Interview is not stored as completed
C24_SuccessIffCompleted ==
    /\ [](\A r \in 1..Len(reqs) : reqs[r].wrote <=> reqs[r].status = 200)
    /\ [][\A r \in 1..Len(reqs') :
            (AnsweredNow(r) /\ reqs'[r].status >= 400)
                => interviews'[InterviewNo(reqs'[r].interviewId)].status # "completed"]_vars

(***************************************************************************)
(* Resolution of interview-run requests (SpecSessionsFair).                *)
(***************************************************************************)
\* the response is the one of the first terminal event that reached the request
FirstDecides(r) ==
    /\ r.first = "start" => r.cause = "start"
    /\ r.first = "error" => r.cause = "error"
    /\ r.first = "call-end" => r.cause \in {"ok", "email", "report"}

\* C25 as stated: every request that marked its Interview in_progress is
\* eventually answered; an answer once given never changes; and the answer is
\* the one of the first terminal event (rejected start, call-end, error) that
\* reached the request
C25_ResolvesOnce ==
    /\ \A r \in 1..MaxReqs :
          (Len(reqs) >= r) ~> (Len(reqs) >= r /\ reqs[r].status # 0)
    /\ [][\A r \in 1..Len(reqs) :
            reqs[r].status # 0 =>
                /\ reqs'[r].status = reqs[r].status
                /\ reqs'[r].cause = reqs[r].cause]_vars
    /\ [](\A r \in 1..Len(reqs) : reqs[r].status # 0 => FirstDecides(reqs[r]))

(***************************************************************************)
(* Rejected interview-run requests (SpecRunner).                           *)
(***************************************************************************)
\* C26: the step that answers an interview-run request with 400, 401 or 404
\* changes no Interview, Candidate or Run, registers no callback on the voice
\* client and starts no session
C26_RejectionChangesNothing ==
    [][(lastRun'.answered /\ ~lastRun.answered /\ lastRun'.status \in {400, 401, 404})
          => /\ interviews' = interviews
             /\ candidates' = candidates
             /\ runs' = runs
             /\ listeners' = listeners
             /\ reqs' = reqs]_vars

\* with a real voice client and an Interview in progress, a request for an
\* unknown Interview was answered 404
C26_Witness ==
    /\ vapiToken
    /\ lastRun.answered
    /\ lastRun.status = 404
    /\ \E i \in 1..Len(interviews) : interviews[i].status = "in_progress"

(***************************************************************************)
(* The persisted transcript (SpecSessions).                                *)
(***************************************************************************)
\* C27 as stated: the transcript a request stores with the status completed is
\* the sequence of final transcript messages its own session delivered between
\* start and call-end, in delivery order
C27_TranscriptIsSessionFinals ==
    [][\A r \in 1..Len(reqs) :
          (reqs'[r].wrote /\ ~reqs[r].wrote)
              => interviews'[InterviewNo(reqs[r].interviewId)].transcript
                    = reqs'[r].finals]_vars

(***************************************************************************)
(* The session cookie (SpecAuth).                                          *)
(***************************************************************************)
\* C28 as stated: with the admin SDK ready, the current user is a user only for
\* a cookie that verifySessionCookie accepted and whose user document exists, a
\* cookie that fails the verification gives no user, and the protected layout
\* renders only for a user
C28_VerifiedSessionOnly ==
    (adminReady /\ session.asked # "none") =>
        /\ session.user # NoUser
              => (session.cookie.valid /\ session.user.id \in session.users)
        /\ ~session.cookie.valid => session.user = NoUser
        /\ session.page = "protected" => session.user # NoUser

(***************************************************************************)
(* Redelivery of a webhook event (SpecWebhook).                            *)
(***************************************************************************)
\* the two Interviews are of the same candidate and scheduled event
SameBooking(a, b) ==
    /\ a.candidateId = b.candidateId
    /\ a.candidateEmail = b.candidateEmail
    /\ a.scheduledAt = b.scheduledAt

\* C29 as stated: however often an invitee.created event is delivered, there is
\* one Interview for its candidate and scheduled event, and the webhook handler
\* calls the interview runner for it at most once
C29_RedeliveryIdempotent ==
    /\ \A i, j \in 1..Len(interviews) :
          SameBooking(interviews[i], interviews[j]) => i = j
    /\ \A k, l \in 1..Len(runnerCalls) :
          SameBooking(interviews[InterviewNo(runnerCalls[k].interviewId)],
                      interviews[InterviewNo(runnerCalls[l].interviewId)]) => k = l

(***************************************************************************)
(* The call status of the Agent component (SpecAgent).                     *)
(***************************************************************************)
\* invocation k of handleCall returns in this step without a successful start
ReturnsFailed(k) ==
    /\ agent'.calls[k].pc = "returned"
    /\ ~agent'.calls[k].ok
    /\ k \in 1..Len(agent.calls) => agent.calls[k].pc # "returned"

====
